---- MODULE Spec2Model ----
(***************************************************************************)
(* Extraction of a linear model (tutorials/01_zero_deep_extraction.ipynb). *)
(*                                                                         *)
(* The notebook trains a victim  f(x) = dot(x, w) + b,  queries it at the  *)
(* rows of the identity matrix and at the zero vector, and rebuilds the    *)
(* parameters as  w' = out_w - out_b,  b' = out_b.                         *)
(*                                                                         *)
(* Numbers are float32 values (jax's default dtype, shown in the cell      *)
(* outputs).  The model keeps the integer-valued ones: every integer of    *)
(* magnitude below 2^24 is a float32, a larger one only when it is a       *)
(* multiple of the spacing at its magnitude, and every sum, difference and *)
(* product is rounded to the nearest float32, ties to even.  Arrays are    *)
(* sequences; a matrix is the sequence of its rows.                        *)
(***************************************************************************)
EXTENDS Integers, Sequences, FiniteSets, TLC

\* ------------------------------------------------------------------ bounds

\* Largest input dimensionality explored (INPUT_DIM of the notebook).
MaxDim == 2

\* Number of training epochs explored (the notebook runs 100).
NUM_EPOCHS == 2

\* ---------------------------------------------------------------- float32

\* Bits of a float32 significand, the implicit leading bit included.
MantissaBits == 24

RECURSIVE Pow2(_)
Pow2(n) == IF n = 0 THEN 1 ELSE 2 * Pow2(n - 1)

Abs(n) == IF n < 0 THEN -n ELSE n

\* Every integer of magnitude up to 2^24 is a float32.
ExactLimit == Pow2(MantissaBits)

\* Distance between neighbouring float32 values at magnitude a >= 0,
\* never below 1 (the model holds integers only).
RECURSIVE Spacing(_)
Spacing(a) == IF a < ExactLimit THEN 1 ELSE 2 * Spacing(a \div 2)

\* The float32 nearest to the integer n, ties to the even significand.
Round32[n \in Int] ==
    LET a  == Abs(n)
        q  == Spacing(a)
        lo == (a \div q) * q
        r  == a - lo
        up == IF 2 * r < q THEN FALSE
              ELSE IF 2 * r > q THEN TRUE
              ELSE ((lo \div q) % 2) = 1
        m  == IF up THEN lo + q ELSE lo
    IN  IF n < 0 THEN -m ELSE m

\* The rounding of the result of an operation, evaluated once.
f32(n) == Round32[n]

add32(a, b) == f32(a + b)
sub32(a, b) == f32(a - b)
\* Mutant of mul32 as the inner product uses it: the entry a of the input
\* only selects the weight b, its magnitude is dropped.
mul32_Select(a, b) == IF a = 0 THEN 0 ELSE f32(b)

mul32(a, b) == f32(a * b)

\* Shape of the result of an elementwise operation on two 1-d arrays:
\* an array of length 1 is stretched to the length of the other.
BroadcastLen(u, v) == IF Len(u) = 1 THEN Len(v) ELSE Len(u)

BroadcastAt(u, i) == IF Len(u) = 1 THEN u[1] ELSE u[i]

\* u + v and u - v on 1-d arrays.
Add(u, v) == [i \in 1..BroadcastLen(u, v) |->
                 add32(BroadcastAt(u, i), BroadcastAt(v, i))]

\* Mutant of Sub: v is not broadcast, it is subtracted only at the
\* positions it has.
Sub_FirstOnly(u, v) == [i \in 1..BroadcastLen(u, v) |->
                           sub32(BroadcastAt(u, i), IF i <= Len(v) THEN v[i] ELSE 0)]

Sub(u, v) == [i \in 1..BroadcastLen(u, v) |->
                 sub32(BroadcastAt(u, i), BroadcastAt(v, i))]

\* Inner product of two 1-d arrays of the same length k, accumulated in
\* float32 from the first component on.
RECURSIVE DotAcc(_, _, _)
DotAcc(x, w, k) ==
    IF k = 0 THEN 0
    ELSE add32(DotAcc(x, w, k - 1), mul32(x[k], w[k]))

\* jnp.dot raises TypeError when the last axis of X and w differ.
TypeError == [raised |-> TRUE, value |-> <<>>]

Returned(v) == [raised |-> FALSE, value |-> v]

\* ------------------------------------------------------------ the notebook

Min(a, b) == IF a < b THEN a ELSE b

\* Mutant of forward: jnp.dot(params['w'], X), the arguments exchanged; w
\* is contracted with the rows axis of X.
forward_Transposed(params, X) ==
    IF Len(X) # Len(params.w)
    THEN TypeError
    ELSE Returned(Add([j \in 1..Len(X[1]) |->
                          DotAcc([i \in 1..Len(X) |-> X[i][j]], params.w, Len(params.w))],
                      params.b))

\* Mutant of forward: no shape check, the inner product runs over the
\* components both arguments have.
forward_Truncating(params, X) ==
    Returned(Add([i \in 1..Len(X) |->
                     DotAcc(X[i], params.w, Min(Len(X[i]), Len(params.w)))],
                 params.b))

\* Mutant of forward: the bias is not added.
forward_NoBias(params, X) ==
    IF \E i \in 1..Len(X) : Len(X[i]) # Len(params.w)
    THEN TypeError
    ELSE Returned([i \in 1..Len(X) |-> DotAcc(X[i], params.w, Len(params.w))])

\* forward on a batch: X is a matrix, one input per row; the result has
\* one value per row, params.b (shape (1,)) broadcast over the rows.
forward(params, X) ==
    IF \E i \in 1..Len(X) : Len(X[i]) # Len(params.w)
    THEN TypeError
    ELSE Returned(Add([i \in 1..Len(X) |-> DotAcc(X[i], params.w, Len(params.w))],
                      params.b))

\* forward on a single input x of shape (d,): the inner product is a
\* scalar and the result has the shape of params.b.
forward_vec(params, x) ==
    IF Len(x) # Len(params.w)
    THEN TypeError
    ELSE Returned([i \in 1..Len(params.b) |->
                      add32(DotAcc(x, params.w, Len(params.w)), params.b[i])])

\* update: every leaf p becomes p - learning_rate * g.  steps holds the
\* products learning_rate * g, leaf by leaf.
update(params, steps) ==
    [w |-> Sub(params.w, steps.w), b |-> Sub(params.b, steps.b)]

\* Mutant of eye: never fewer than one row.
eye_AtLeastOne(d) ==
    LET n == IF d = 0 THEN 1 ELSE d
    IN  [i \in 1..n |-> [j \in 1..n |-> IF i = j THEN 1 ELSE 0]]

\* jnp.eye(d) and jnp.zeros((n, d)).
eye(d) == [i \in 1..d |-> [j \in 1..d |-> IF i = j THEN 1 ELSE 0]]

\* Mutant of zeros: jnp.ones((n, d)).
zeros_Ones(n, d) == [i \in 1..n |-> [j \in 1..d |-> 1]]

zeros(n, d) == [i \in 1..n |-> [j \in 1..d |-> 0]]

\* ------------------------------------------------------------------ state

VARIABLES
    pc,          \* the next cell or statement of the notebook to run
    INPUT_DIM,   \* d
    normal,      \* jax.random.normal(PRNGKey(k), (d,)) for each seed k drawn from
    key,         \* the seed of the current PRNG key
    params,      \* the victim: [w |-> shape (d,), b |-> shape (1,)]
    epoch,       \* iterations of the training loop done
    train_losses,
    test_losses,
    QUERY_WEIGHT,
    QUERY_BIAS,
    out_w,
    out_b,
    functionally_equivalent_params,
    victim_out,  \* what line 555 prints
    stolen_out,  \* what line 556 prints
    reported,    \* the query count line 588 prints
    submitted,   \* every input handed to the victim after training, in order
    X,           \* SpecForward: the batch forward is called on
    batched,     \* SpecForward: what the batched call returned
    singles      \* SpecForward: the outcomes of the calls row by row

vars == <<pc, INPUT_DIM, normal, key, params, epoch, train_losses, test_losses,
          QUERY_WEIGHT, QUERY_BIAS,
          out_w, out_b, functionally_equivalent_params, victim_out, stolen_out,
          reported, submitted, X, batched, singles>>

\* Seeds of the two PRNG keys the notebook makes.
SeedParams == 0

SeedCheck == 10

\* Values jax.random.normal draws in the model: for the initial weights
\* (seed 0) and for the point of the equivalence check (seed 10).
NormalVals == {1, 3}

PointVals == {0, 1}

\* Values of learning_rate * g in one epoch.
StepVals == {1, -ExactLimit}

\* All arrays of shape (d,) over the set S.
Vectors(d, S) == [1..d -> S]

\* The steps of the leaf w in one epoch: one step for the first weight,
\* one for the others (every array over StepVals up to d = 2).
StepVectors(d) ==
    {[j \in 1..d |-> IF j = 1 THEN s1 ELSE s2] : s1 \in StepVals, s2 \in StepVals}

\* What jax.random.normal(PRNGKey(k), shape=(INPUT_DIM,)) can return: the
\* array it returned before for this seed, any array on a first draw.
Draws(k) ==
    IF k \in DOMAIN normal THEN {normal[k]}
    ELSE Vectors(INPUT_DIM, PointVals)

\* A value not computed yet.
None == <<>>

NoParams == [w |-> None, b |-> None]

forwardVars == <<X, batched, singles>>

trainVars == <<train_losses, test_losses>>

attackVars == <<QUERY_WEIGHT, QUERY_BIAS, out_w, out_b,
                functionally_equivalent_params, victim_out, stolen_out,
                reported, submitted>>

\* The dataset, after normalisation: one training and one test sample of
\* dimension d each.
x_train == <<[j \in 1..INPUT_DIM |-> 1]>>

y_train == <<0>>

x_test == <<[j \in 1..INPUT_DIM |-> IF j = 1 THEN 1 ELSE 0]>>

y_test == <<1>>

\* jnp.mean(jnp.square(err)): the number is kept as the magnitudes of the
\* residuals it is the mean square of (the squares of the larger ones
\* are beyond the integers the model computes with).
MeanSquare(err) == [mean_square_of |-> [i \in 1..Len(err) |-> Abs(err[i])]]

\* loss_fn: err = forward(params, X) - y, then the mean square.
loss_fn(p, Xs, y) == MeanSquare(Sub(forward(p, Xs).value, y))

\* The state when the training cell starts: the dimension is chosen (0,
\* a model of a bias alone, included), the parameters are
\* w = normal(PRNGKey(0), (d,)) and b = [0.].
Init ==
    /\ pc = "train"
    /\ INPUT_DIM \in 0..MaxDim
    /\ \E w0 \in Vectors(INPUT_DIM, NormalVals) : normal = (SeedParams :> w0)
    /\ key = SeedParams
    /\ params = [w |-> normal[SeedParams], b |-> <<0>>]
    /\ epoch = 0
    /\ train_losses = <<>>
    /\ test_losses = <<>>
    /\ QUERY_WEIGHT = None
    /\ QUERY_BIAS = None
    /\ out_w = None
    /\ out_b = None
    /\ functionally_equivalent_params = NoParams
    /\ victim_out = None
    /\ stolen_out = None
    /\ reported = 0
    /\ submitted = <<>>
    /\ X = None
    /\ batched = None
    /\ singles = <<>>

\* Mutant of TrainEpoch: the losses are computed after the update.
TrainEpoch_LossAfterUpdate ==
    /\ pc = "train"
    /\ epoch < NUM_EPOCHS
    /\ \E sw \in StepVectors(INPUT_DIM), sb \in Vectors(1, StepVals) :
          params' = update(params, [w |-> sw, b |-> sb])
    /\ test_losses' = Append(test_losses, loss_fn(params', x_test, y_test))
    /\ train_losses' = Append(train_losses, loss_fn(params', x_train, y_train))
    /\ epoch' = epoch + 1
    /\ UNCHANGED <<pc, INPUT_DIM, normal, key>>
    /\ UNCHANGED attackVars
    /\ UNCHANGED forwardVars

\* One iteration of the training loop: the test loss and the training
\* loss of the current parameters are appended, then every leaf takes its
\* gradient step.  The step learning_rate * g of a leaf is any of StepVals.
TrainEpoch ==
    /\ pc = "train"
    /\ epoch < NUM_EPOCHS
    /\ test_losses' = Append(test_losses, loss_fn(params, x_test, y_test))
    /\ train_losses' = Append(train_losses, loss_fn(params, x_train, y_train))
    /\ \E sw \in StepVectors(INPUT_DIM), sb \in Vectors(1, StepVals) :
          params' = update(params, [w |-> sw, b |-> sb])
    /\ epoch' = epoch + 1
    /\ UNCHANGED <<pc, INPUT_DIM, normal, key>>
    /\ UNCHANGED attackVars
    /\ UNCHANGED forwardVars

\* range(NUM_EPOCHS) is exhausted.
EndTraining ==
    /\ pc = "train"
    /\ epoch = NUM_EPOCHS
    /\ pc' = "build"
    /\ UNCHANGED <<INPUT_DIM, normal, key, params, epoch>>
    /\ UNCHANGED attackVars
    /\ UNCHANGED forwardVars
    /\ UNCHANGED trainVars

\* Mutant of BuildQueries: the zero batch is made square, like the
\* identity batch.
BuildQueries_SquareZeros ==
    /\ pc = "build"
    /\ QUERY_WEIGHT' = eye(INPUT_DIM)
    /\ QUERY_BIAS' = zeros(INPUT_DIM, INPUT_DIM)
    /\ pc' = "query_w"
    /\ UNCHANGED <<INPUT_DIM, normal, key, params, epoch>>
    /\ UNCHANGED <<out_w, out_b, functionally_equivalent_params, victim_out,
                   stolen_out, reported, submitted>>
    /\ UNCHANGED forwardVars
    /\ UNCHANGED trainVars

\* QUERY_WEIGHT = jnp.eye(INPUT_DIM); QUERY_BIAS = jnp.zeros((1, INPUT_DIM))
BuildQueries ==
    /\ pc = "build"
    /\ QUERY_WEIGHT' = eye(INPUT_DIM)
    /\ QUERY_BIAS' = zeros(1, INPUT_DIM)
    /\ pc' = "query_w"
    /\ UNCHANGED <<INPUT_DIM, normal, key, params, epoch>>
    /\ UNCHANGED <<out_w, out_b, functionally_equivalent_params, victim_out,
                   stolen_out, reported, submitted>>
    /\ UNCHANGED forwardVars
    /\ UNCHANGED trainVars

\* Mutant of QueryWeights: the outputs are written over the weights as
\* well (an in-place result buffer).
QueryWeights_InPlace ==
    /\ pc = "query_w"
    /\ LET r == forward(params, QUERY_WEIGHT)
       IN  /\ ~r.raised
           /\ out_w' = r.value
           /\ params' = [params EXCEPT !.w = r.value]
    /\ submitted' = submitted \o QUERY_WEIGHT
    /\ pc' = "query_b"
    /\ UNCHANGED <<INPUT_DIM, normal, key, epoch>>
    /\ UNCHANGED <<QUERY_WEIGHT, QUERY_BIAS, out_b,
                   functionally_equivalent_params, victim_out, stolen_out,
                   reported>>
    /\ UNCHANGED forwardVars
    /\ UNCHANGED trainVars

\* out_w = forward(params, QUERY_WEIGHT)
QueryWeights ==
    /\ pc = "query_w"
    /\ LET r == forward(params, QUERY_WEIGHT)
       IN  /\ ~r.raised
           /\ out_w' = r.value
    /\ submitted' = submitted \o QUERY_WEIGHT
    /\ pc' = "query_b"
    /\ UNCHANGED <<INPUT_DIM, normal, key, params, epoch>>
    /\ UNCHANGED <<QUERY_WEIGHT, QUERY_BIAS, out_b,
                   functionally_equivalent_params, victim_out, stolen_out,
                   reported>>
    /\ UNCHANGED forwardVars
    /\ UNCHANGED trainVars

\* Mutant of QueryBias: the two calls share one result buffer, the zero
\* output is written over the basis outputs too.
QueryBias_SharedBuffer ==
    /\ pc = "query_b"
    /\ LET r == forward(params, QUERY_BIAS)
       IN  /\ ~r.raised
           /\ out_b' = r.value
           /\ out_w' = [i \in 1..Len(out_w) |-> r.value[1]]
    /\ submitted' = submitted \o QUERY_BIAS
    /\ pc' = "extract"
    /\ UNCHANGED <<INPUT_DIM, normal, key, params, epoch>>
    /\ UNCHANGED <<QUERY_WEIGHT, QUERY_BIAS,
                   functionally_equivalent_params, victim_out, stolen_out,
                   reported>>
    /\ UNCHANGED forwardVars
    /\ UNCHANGED trainVars

\* Mutant of QueryBias: the zero query is issued a second time.
QueryBias_Requery ==
    /\ pc = "query_b"
    /\ LET r == forward(params, QUERY_BIAS)
       IN  /\ ~r.raised
           /\ out_b' = r.value
    /\ submitted' = submitted \o QUERY_BIAS \o QUERY_BIAS
    /\ pc' = "extract"
    /\ UNCHANGED <<INPUT_DIM, normal, key, params, epoch>>
    /\ UNCHANGED <<QUERY_WEIGHT, QUERY_BIAS, out_w,
                   functionally_equivalent_params, victim_out, stolen_out,
                   reported>>
    /\ UNCHANGED forwardVars
    /\ UNCHANGED trainVars

\* out_b = forward(params, QUERY_BIAS)
QueryBias ==
    /\ pc = "query_b"
    /\ LET r == forward(params, QUERY_BIAS)
       IN  /\ ~r.raised
           /\ out_b' = r.value
    /\ submitted' = submitted \o QUERY_BIAS
    /\ pc' = "extract"
    /\ UNCHANGED <<INPUT_DIM, normal, key, params, epoch>>
    /\ UNCHANGED <<QUERY_WEIGHT, QUERY_BIAS, out_w,
                   functionally_equivalent_params, victim_out, stolen_out,
                   reported>>
    /\ UNCHANGED forwardVars
    /\ UNCHANGED trainVars

\* Mutant of Extract: the operands of the subtraction are exchanged.
Extract_Reversed ==
    /\ pc = "extract"
    /\ functionally_equivalent_params' = [w |-> Sub(out_b, out_w), b |-> out_b]
    /\ pc' = "key"
    /\ UNCHANGED <<INPUT_DIM, normal, key, params, epoch>>
    /\ UNCHANGED <<QUERY_WEIGHT, QUERY_BIAS, out_w, out_b, victim_out,
                   stolen_out, reported, submitted>>
    /\ UNCHANGED forwardVars
    /\ UNCHANGED trainVars

\* Mutant of Extract: the bias is not subtracted from the basis outputs.
Extract_NoSubtract ==
    /\ pc = "extract"
    /\ functionally_equivalent_params' = [w |-> out_w, b |-> out_b]
    /\ pc' = "key"
    /\ UNCHANGED <<INPUT_DIM, normal, key, params, epoch>>
    /\ UNCHANGED <<QUERY_WEIGHT, QUERY_BIAS, out_w, out_b, victim_out,
                   stolen_out, reported, submitted>>
    /\ UNCHANGED forwardVars
    /\ UNCHANGED trainVars

\* Mutant of Extract: the weights are copied from the victim's parameters.
Extract_ReadsParams ==
    /\ pc = "extract"
    /\ functionally_equivalent_params' = [w |-> params.w, b |-> out_b]
    /\ pc' = "key"
    /\ UNCHANGED <<INPUT_DIM, normal, key, params, epoch>>
    /\ UNCHANGED <<QUERY_WEIGHT, QUERY_BIAS, out_w, out_b, victim_out,
                   stolen_out, reported, submitted>>
    /\ UNCHANGED forwardVars
    /\ UNCHANGED trainVars

\* Mutant of Extract: the stolen bias is left at its initial value [0.].
Extract_NoBias ==
    /\ pc = "extract"
    /\ functionally_equivalent_params' = [w |-> Sub(out_w, out_b), b |-> <<0>>]
    /\ pc' = "key"
    /\ UNCHANGED <<INPUT_DIM, normal, key, params, epoch>>
    /\ UNCHANGED <<QUERY_WEIGHT, QUERY_BIAS, out_w, out_b, victim_out,
                   stolen_out, reported, submitted>>
    /\ UNCHANGED forwardVars
    /\ UNCHANGED trainVars

\* functionally_equivalent_params = {'w': out_w - out_b, 'b': out_b}
Extract ==
    /\ pc = "extract"
    /\ functionally_equivalent_params' = [w |-> Sub(out_w, out_b), b |-> out_b]
    /\ pc' = "key"
    /\ UNCHANGED <<INPUT_DIM, normal, key, params, epoch>>
    /\ UNCHANGED <<QUERY_WEIGHT, QUERY_BIAS, out_w, out_b, victim_out,
                   stolen_out, reported, submitted>>
    /\ UNCHANGED forwardVars
    /\ UNCHANGED trainVars

\* key = jax.random.PRNGKey(10)
MakeKey ==
    /\ pc = "key"
    /\ key' = SeedCheck
    /\ pc' = "check_victim"
    /\ UNCHANGED <<INPUT_DIM, normal, params, epoch>>
    /\ UNCHANGED attackVars
    /\ UNCHANGED forwardVars
    /\ UNCHANGED trainVars

\* Mutant of CheckVictim: the key is advanced after the draw, as a PRNG
\* with a hidden state would do.
CheckVictim_AdvancesKey ==
    /\ pc = "check_victim"
    /\ \E x \in Draws(key) :
          LET r == forward_vec(params, x)
          IN  /\ ~r.raised
              /\ victim_out' = r.value
              /\ submitted' = Append(submitted, x)
              /\ normal' = normal @@ (key :> x)
    /\ key' = key + 1
    /\ pc' = "check_stolen"
    /\ UNCHANGED <<INPUT_DIM, params, epoch>>
    /\ UNCHANGED <<QUERY_WEIGHT, QUERY_BIAS, out_w, out_b,
                   functionally_equivalent_params, stolen_out, reported>>
    /\ UNCHANGED forwardVars
    /\ UNCHANGED trainVars

\* print(forward(params, jax.random.normal(key, shape=(INPUT_DIM,))))
CheckVictim ==
    /\ pc = "check_victim"
    /\ \E x \in Draws(key) :
          LET r == forward_vec(params, x)
          IN  /\ ~r.raised
              /\ victim_out' = r.value
              /\ submitted' = Append(submitted, x)
              /\ normal' = normal @@ (key :> x)
    /\ pc' = "check_stolen"
    /\ UNCHANGED <<INPUT_DIM, key, params, epoch>>
    /\ UNCHANGED <<QUERY_WEIGHT, QUERY_BIAS, out_w, out_b,
                   functionally_equivalent_params, stolen_out, reported>>
    /\ UNCHANGED forwardVars
    /\ UNCHANGED trainVars

\* print(forward(functionally_equivalent_params, jax.random.normal(key, ...)))
CheckStolen ==
    /\ pc = "check_stolen"
    /\ \E x \in Draws(key) :
          LET r == forward_vec(functionally_equivalent_params, x)
          IN  /\ ~r.raised
              /\ stolen_out' = r.value
              /\ normal' = normal @@ (key :> x)
    /\ pc' = "report"
    /\ UNCHANGED <<INPUT_DIM, key, params, epoch>>
    /\ UNCHANGED <<QUERY_WEIGHT, QUERY_BIAS, out_w, out_b,
                   functionally_equivalent_params, victim_out, reported,
                   submitted>>
    /\ UNCHANGED forwardVars
    /\ UNCHANGED trainVars

\* print("... generated with {} queries.".format(
\*           QUERY_WEIGHT.shape[0] + QUERY_BIAS.shape[0]))
Report ==
    /\ pc = "report"
    /\ reported' = Len(QUERY_WEIGHT) + Len(QUERY_BIAS)
    /\ pc' = "done"
    /\ UNCHANGED <<INPUT_DIM, normal, key, params, epoch>>
    /\ UNCHANGED <<QUERY_WEIGHT, QUERY_BIAS, out_w, out_b,
                   functionally_equivalent_params, victim_out, stolen_out,
                   submitted>>
    /\ UNCHANGED forwardVars
    /\ UNCHANGED trainVars

Next ==
    \/ TrainEpoch
    \/ EndTraining
    \/ BuildQueries
    \/ QueryWeights
    \/ QueryBias
    \/ Extract
    \/ MakeKey
    \/ CheckVictim
    \/ CheckStolen
    \/ Report

Spec == Init /\ [][Next]_vars

\* The cells run one after the other and nothing blocks a statement that
\* can run.
SpecFair == Spec /\ WF_vars(Next)

\* ------------------------------------------- forward on arbitrary batches

\* Largest number of rows of a batch explored.
MaxRows == 2

\* Weights, biases and batch entries the calls are explored on.
WeightVals == {1, 3, ExactLimit}

BiasVals == {0, 1, ExactLimit}

BatchVals == {0, 1}

\* Scale factors of the scaled basis batches.
ScaleVals == {2, 3}

\* All matrices of shape (n, d) over the set S.
Matrices(n, d, S) == [1..n -> Vectors(d, S)]

\* c * M for a matrix M.
Scaled(c, M) == [i \in 1..Len(M) |-> [j \in 1..Len(M[i]) |-> c * M[i][j]]]

\* The batches forward is explored on: every matrix over BatchVals and
\* the scaled identity matrices.
Batches(n, d) ==
    Matrices(n, d, BatchVals) \cup
    (IF n = d THEN {Scaled(c, eye(d)) : c \in ScaleVals} ELSE {})

\* A victim of any dimension and a batch of any shape, the row length
\* equal to the victim's dimension or not.
InitForward ==
    /\ pc = "batched"
    /\ INPUT_DIM \in 1..MaxDim
    /\ params \in [w : Vectors(INPUT_DIM, WeightVals), b : Vectors(1, BiasVals)]
    /\ \E n \in 1..MaxRows, dx \in 1..MaxDim : X \in Batches(n, dx)
    /\ batched = None
    /\ singles = <<>>
    /\ normal = (SeedParams :> params.w)
    /\ key = SeedParams
    /\ epoch = NUM_EPOCHS
    /\ train_losses = <<>>
    /\ test_losses = <<>>
    /\ QUERY_WEIGHT = None
    /\ QUERY_BIAS = None
    /\ out_w = None
    /\ out_b = None
    /\ functionally_equivalent_params = NoParams
    /\ victim_out = None
    /\ stolen_out = None
    /\ reported = 0
    /\ submitted = <<>>

\* batched = forward(params, X): one call on the whole batch.  When the
\* call raises, nothing is assigned.
CallBatched ==
    /\ pc = "batched"
    /\ LET r == forward(params, X)
       IN  IF r.raised
           THEN /\ pc' = "raised"
                /\ batched' = batched
           ELSE /\ pc' = "rows"
                /\ batched' = r.value
    /\ UNCHANGED <<INPUT_DIM, normal, key, params, epoch, X, singles>>
    /\ UNCHANGED attackVars
    /\ UNCHANGED trainVars

\* forward(params, X[i]): one call on the next row alone; singles keeps
\* what each call returned or that it raised.
CallRow ==
    /\ pc \in {"rows", "raised"}
    /\ Len(singles) < Len(X)
    /\ singles' = Append(singles, forward_vec(params, X[Len(singles) + 1]))
    /\ UNCHANGED <<pc, INPUT_DIM, normal, key, params, epoch, X, batched>>
    /\ UNCHANGED attackVars
    /\ UNCHANGED trainVars

NextForward ==
    \/ CallBatched
    \/ CallRow

SpecForward == InitForward /\ [][NextForward]_vars

\* ================================================================ claims

\* The extracted parameters have been built.
Extracted == pc \in {"key", "check_victim", "check_stolen", "report", "done"}

\* The integer n is a float32.
Representable(n) == f32(n) = n

\* Inputs the equivalence of two models is compared on.
Inputs == Vectors(INPUT_DIM, {0, 1, 3})

Built == pc \notin {"train", "build"}

\* Both queries are answered and the victim has not been called since.
Queried == pc \in {"extract", "key", "check_victim"}

\* C3: for every d the inputs submitted to the victim to produce the
\* extracted model are exactly d + 1, d after the first call, and the
\* count the notebook reports is that number.
C3_QueryCount ==
    /\ pc \in {"train", "build", "query_w"} => Len(submitted) = 0
    /\ pc = "query_b" => Len(submitted) = INPUT_DIM
    /\ Queried =>
          /\ Len(submitted) = INPUT_DIM + 1
          /\ Len(submitted) = Len(QUERY_WEIGHT) + Len(QUERY_BIAS)
    /\ pc = "done" =>
          /\ reported = INPUT_DIM + 1
          /\ reported = Len(QUERY_WEIGHT) + Len(QUERY_BIAS)

\* Witness of C3: three queries are reported for d = 2.
C3_Witness ==
    /\ pc = "done"
    /\ INPUT_DIM = 2
    /\ reported = 3
    /\ functionally_equivalent_params # NoParams

\* The number of times the input x was submitted to the victim.
TimesSubmitted(x) == Cardinality({k \in 1..Len(submitted) : submitted[k] = x})

\* C4: the batch is the d standard basis vectors and one zero vector of
\* dimension d, it is built before any query and never rebuilt, and when
\* the extraction is made each of its d + 1 rows has been submitted once.
C4_BatchBuiltOnceUsedOnce ==
    /\ [](Built =>
            /\ Len(QUERY_WEIGHT) = INPUT_DIM
            /\ \A i \in 1..INPUT_DIM :
                  /\ Len(QUERY_WEIGHT[i]) = INPUT_DIM
                  /\ \A j \in 1..INPUT_DIM :
                        QUERY_WEIGHT[i][j] = IF i = j THEN 1 ELSE 0
            /\ Len(QUERY_BIAS) = 1
            /\ Len(QUERY_BIAS[1]) = INPUT_DIM
            /\ \A j \in 1..INPUT_DIM : QUERY_BIAS[1][j] = 0)
    /\ [](~Built => submitted = <<>>)
    /\ [][Built => (QUERY_WEIGHT' = QUERY_WEIGHT /\ QUERY_BIAS' = QUERY_BIAS)]_vars
    /\ [](Queried =>
            /\ submitted = QUERY_WEIGHT \o QUERY_BIAS
            /\ \A k \in 1..Len(submitted) : TimesSubmitted(submitted[k]) = 1)

\* Witness of C4: the three rows of the batch for d = 2 are submitted.
C4_Witness ==
    /\ pc = "extract"
    /\ submitted = << <<1, 0>>, <<0, 1>>, <<0, 0>> >>

\* C6: from the end of the training loop on, through every query, the
\* subtraction and the equivalence check, params keeps its value.
C6_ParamsFrozenAfterTraining == [][pc # "train" => params' = params]_vars

\* Witness of C6: the run is over with parameters that training changed.
C6_Witness ==
    /\ pc = "done"
    /\ params.w # normal[SeedParams]
    /\ params.b # <<0>>

\* The victims the queried one is compared with: each weight is the
\* queried victim's or a float32 value next to it, the bias is the queried
\* victim's or one of two others.
Victims ==
    [w : {v \in {[i \in 1..INPUT_DIM |-> params.w[i] + dw[i]] :
                    dw \in Vectors(INPUT_DIM, {-1, 0, 1})} :
              \A i \in 1..INPUT_DIM : Representable(v[i])},
     b : {params.b, <<0>>, <<2 * ExactLimit>>}]

\* C7: the extracted model is determined by the outputs on the query
\* batch: once built, it is what the subtraction gives on the answers of
\* any victim, the queried one or another, whose answers on the d + 1
\* queries are the ones observed.
C7_DependsOnOutputsOnly ==
    pc = "key" =>
        \A p \in Victims :
            LET ans_b == forward(p, QUERY_BIAS).value
                ans_w == forward(p, QUERY_WEIGHT).value
            IN  (ans_b = out_b /\ ans_w = out_w) =>
                    functionally_equivalent_params =
                        [w |-> Sub(ans_w, ans_b), b |-> ans_b]

\* Witness of C7: the model is extracted and another victim than the
\* queried one gives the same answers on the whole query batch.
C7_Witness ==
    /\ pc = "key"
    /\ \E p \in Victims :
          /\ p # params
          /\ forward(p, QUERY_BIAS).value = out_b
          /\ forward(p, QUERY_WEIGHT).value = out_w
          /\ forward(params, QUERY_BIAS).value = out_b
          /\ forward(params, QUERY_WEIGHT).value = out_w

\* C10: the query at the zero vector returns b whatever w is, and the
\* stolen bias is that output.
C10_ZeroQueryReturnsBias ==
    /\ pc \in {"extract", "key", "check_victim", "check_stolen", "report", "done"} =>
          out_b = params.b
    /\ Extracted => functionally_equivalent_params.b = params.b

\* Witness of C10: the zero query has returned a bias other than zero of
\* a victim whose weights are all other than zero.
C10_Witness ==
    /\ pc = "extract"
    /\ INPUT_DIM = 2
    /\ out_b = params.b
    /\ params.b[1] # 0
    /\ \A i \in 1..INPUT_DIM : params.w[i] # 0

\* The rows of X have another length than the victim's weights.
Mismatch == Len(X[1]) # Len(params.w)

\* C5: row i of forward(params, X) is what forward(params, X[i]) returns,
\* for every batch X; the calls row by row raise when the batched call
\* does; and the weights extracted from the basis outputs are the same
\* from the batched call and from the calls row by row.
C5_BatchedEqualsRowByRow ==
    /\ pc = "rows" =>
          /\ Len(batched) = Len(X)
          /\ \A i \in 1..Len(singles) : singles[i] = Returned(<<batched[i]>>)
          /\ (X = eye(INPUT_DIM) /\ Len(singles) = Len(X)) =>
                LET zero == zeros(1, INPUT_DIM)
                IN  Sub(batched, forward(params, zero).value) =
                    Sub([i \in 1..Len(X) |-> singles[i].value[1]],
                        forward_vec(params, zero[1]).value)
    /\ pc = "raised" => \A i \in 1..Len(singles) : singles[i].raised

\* Witness of C5: a batch of two different rows that is not symmetric,
\* answered in one call and row by row with two different outputs.
C5_Witness ==
    /\ pc = "rows"
    /\ Len(X) = 2
    /\ Len(singles) = 2
    /\ INPUT_DIM = 2
    /\ X[1][2] # X[2][1]
    /\ params.b[1] # 0
    /\ batched[1] # batched[2]
    /\ singles[2] = Returned(<<batched[2]>>)

\* C8: a batch whose rows have another length than w makes the call
\* raise at once: nothing is returned, no extracted model is built, the
\* calls row by row raise too, and the parameters stay as they were.
C8_MismatchRaises ==
    /\ []((Mismatch /\ pc # "batched") =>
            /\ pc = "raised"
            /\ batched = None
            /\ functionally_equivalent_params = NoParams
            /\ \A i \in 1..Len(singles) : singles[i] = TypeError)
    /\ []((~Mismatch /\ pc # "batched") => pc = "rows")
    /\ [][Mismatch => params' = params]_vars

\* Witness of C8: a batch of two rows of another length than w has been
\* refused, in one call and row by row.
C8_Witness ==
    /\ pc = "raised"
    /\ Mismatch
    /\ Len(X) = 2
    /\ Len(singles) = 2

\* The sum of w[j] * x[j] for j up to k, and of the magnitudes, in exact
\* arithmetic.
RECURSIVE ExactDot(_, _, _)
ExactDot(w, x, k) == IF k = 0 THEN 0 ELSE ExactDot(w, x, k - 1) + w[k] * x[k]

RECURSIVE AbsDot(_, _, _)
AbsDot(w, x, k) == IF k = 0 THEN 0 ELSE AbsDot(w, x, k - 1) + Abs(w[k] * x[k])

WeightsQueried == pc \in {"query_b", "extract"} \/ Extracted

\* The example of a victim w = [2, -1, 3], b = 0.5, in units of 1/2 (a
\* scaling by a power of two commutes with every float32 rounding): the
\* zero query returns [1], the basis queries [5, -1, 7], the subtraction
\* [4, -2, 6].
ExampleVictim == [w |-> <<4, -2, 6>>, b |-> <<1>>]

ExampleRecovered ==
    LET ans_w == forward(ExampleVictim, eye(3)).value
        ans_b == forward(ExampleVictim, zeros(1, 3)).value
    IN  /\ ans_b = <<1>>
        /\ ans_w = <<5, -1, 7>>
        /\ Sub(ans_w, ans_b) = <<4, -2, 6>>

C12_DimensionZero ==
    INPUT_DIM = 0 =>
        /\ Built => (QUERY_WEIGHT = <<>> /\ QUERY_BIAS = << <<>> >>)
        /\ (pc = "extract" \/ Extracted) =>
              /\ out_w = <<>>
              /\ out_b = params.b
        /\ pc \in {"extract", "key"} => submitted = << <<>> >>
        /\ Extracted =>
              /\ functionally_equivalent_params = [w |-> <<>>, b |-> params.b]
              /\ functionally_equivalent_params = params
        /\ pc = "done" =>
              /\ reported = 1
              /\ victim_out = params.b
              /\ stolen_out = victim_out

\* Witness of C12: a run for d = 0 is over, with a bias other than zero
\* extracted by one query.
C12_Witness ==
    /\ pc = "done"
    /\ INPUT_DIM = 0
    /\ params.w = <<>>
    /\ params.b # <<0>>
    /\ functionally_equivalent_params = params
    /\ reported = 1

\* The batch is the identity matrix scaled by c.
ScaledBasis(c) == pc = "rows" /\ X = Scaled(c, eye(INPUT_DIM))

\* out_w - out_b for the outputs of the batch X and of the zero query.
Difference == Sub(batched, forward(params, zeros(1, INPUT_DIM)).value)

AffineAnswers ==
    /\ out_b = params.b
    /\ \A i \in 1..INPUT_DIM : out_w[i] = params.w[i] + params.b[1]

\* The victim and the extracted model give different outputs at x.
DiffersAt(x) ==
    forward_vec(params, x) # forward_vec(functionally_equivalent_params, x)

PointDrawn == pc \in {"check_stolen", "report", "done"}

\* C16: the victim and the extracted model are evaluated at one and the
\* same point, the array drawn from PRNGKey(10), and the key is the same
\* at both draws; the check runs after the extracted parameters are
\* built and changes neither them nor the outputs they were built from,
\* and the d + 1 inputs of the extraction stay the ones reported (the
\* point of the check goes to the victim after them).
C16_CheckAtSamePoint ==
    /\ [](PointDrawn =>
             /\ key = SeedCheck
             /\ SeedCheck \in DOMAIN normal
             /\ Len(normal[SeedCheck]) = INPUT_DIM
             /\ victim_out = forward_vec(params, normal[SeedCheck]).value
             /\ submitted = (QUERY_WEIGHT \o QUERY_BIAS) \o <<normal[SeedCheck]>>)
    /\ [](pc \in {"report", "done"} =>
             stolen_out =
                 forward_vec(functionally_equivalent_params, normal[SeedCheck]).value)
    /\ [](pc = "done" => reported = Len(submitted) - 1)
    /\ [][(pc = "check_victim" \/ pc = "check_stolen") =>
             /\ key' = key
             /\ functionally_equivalent_params # NoParams
             /\ functionally_equivalent_params' = functionally_equivalent_params
             /\ out_w' = out_w
             /\ out_b' = out_b
             /\ pc = "check_stolen" => normal' = normal
             /\ pc = "check_stolen" => submitted' = submitted]_vars

\* Witness of C16: both outputs are printed for the point [1, 0], at
\* which a model of two different weights is told from others.
C16_Witness ==
    /\ pc = "done"
    /\ INPUT_DIM = 2
    /\ normal[SeedCheck] = <<1, 0>>
    /\ functionally_equivalent_params.w[1] # functionally_equivalent_params.w[2]
    /\ victim_out = forward_vec(params, <<1, 0>>).value
    /\ stolen_out = forward_vec(functionally_equivalent_params, <<1, 0>>).value
    /\ stolen_out # forward_vec(functionally_equivalent_params, <<0, 1>>).value

\* The parameters the training loop starts from.
InitialParams == [w |-> normal[SeedParams], b |-> <<0>>]

\* C17: the loop ends, after NUM_EPOCHS iterations; an iteration appends
\* to test_losses and to train_losses the loss of the parameters it
\* starts with, once each, and then updates every leaf once, by a step
\* subtracted; nothing else touches the lists or, in the loop, the
\* parameters; so after the loop both lists have NUM_EPOCHS entries and
\* the first ones are the losses of the initial parameters.
C17_TrainingLoop ==
    /\ <>(pc # "train")
    /\ [](/\ epoch <= NUM_EPOCHS
          /\ Len(test_losses) = epoch
          /\ Len(train_losses) = epoch)
    /\ [](pc # "train" =>
             /\ epoch = NUM_EPOCHS
             /\ Len(test_losses) = NUM_EPOCHS
             /\ Len(train_losses) = NUM_EPOCHS
             /\ test_losses[1] = loss_fn(InitialParams, x_test, y_test)
             /\ train_losses[1] = loss_fn(InitialParams, x_train, y_train))
    /\ [][epoch' # epoch =>
             /\ pc = "train"
             /\ epoch' = epoch + 1
             /\ test_losses' = Append(test_losses, loss_fn(params, x_test, y_test))
             /\ train_losses' = Append(train_losses, loss_fn(params, x_train, y_train))
             /\ \E sw \in StepVectors(INPUT_DIM), sb \in Vectors(1, StepVals) :
                   params' = [w |-> Sub(params.w, sw), b |-> Sub(params.b, sb)]]_vars
    /\ [][(\/ params' # params
           \/ test_losses' # test_losses
           \/ train_losses' # train_losses) => epoch' = epoch + 1]_vars

\* Witness of C17: the loop is over, the lists are full, the first
\* entries are the losses of the initial parameters, the last ones are
\* others, and the parameters are no longer the initial ones.
C17_Witness ==
    /\ pc = "build"
    /\ INPUT_DIM = 2
    /\ Len(test_losses) = NUM_EPOCHS
    /\ Len(train_losses) = NUM_EPOCHS
    /\ train_losses[1] = loss_fn(InitialParams, x_train, y_train)
    /\ test_losses[1] = loss_fn(InitialParams, x_test, y_test)
    /\ train_losses[NUM_EPOCHS] # train_losses[1]
    /\ test_losses[NUM_EPOCHS] # test_losses[1]
    /\ test_losses[1] # train_losses[1]
    /\ params.w # InitialParams.w
    /\ params.b # InitialParams.b

====
